---- MODULE Spec2Model ----
(***************************************************************************)
(* Model of src/create/swebench.py: the builder of retrieval datasets      *)
(* (queries, corpus, qrels) from SWE-bench instances, at file or function  *)
(* granularity.                                                            *)
(*                                                                         *)
(* Strings are sequences of atoms.  An atom is either one of the separator *)
(* characters " ", "_", "/", "." , "-" or a chunk of other characters; no  *)
(* two chunks used here concatenate to another chunk, so splitting,        *)
(* prefix tests and concatenation on atoms agree with the same operations  *)
(* on characters.                                                          *)
(***************************************************************************)
EXTENDS Naturals, Sequences, FiniteSets, Bags, TLC

VARIABLES
    args,             \* the parsed command line (argparse namespace)
    dataset,          \* the loaded benchmark split: a sequence of instances
    pc,               \* position of the single thread of control
    exc,              \* the exception in flight or that ended the run ("" if none)
    i,                \* index of the item the loop of file()/function() is at
    fs,               \* dataset directories: root -> (entry name -> content)
    cwd,              \* the process's current working directory
    bound,            \* function(): which of its locals are bound
    data,             \* function(): keys of the dict `data`
    patch_info,       \* function(): file -> sequence of hunks
    changed_funcs,    \* function(): the set changed_funcs
    input_instances,  \* get_file_contents(): the instance dicts it was given
    orig_dir,         \* get_file_contents(): orig_dir
    root_dir,         \* get_file_contents(): the TemporaryDirectory's name
    k,                \* get_file_contents(): index of the instance in its loop
    wc,               \* working copies under root_dir: repo_dir -> commit at HEAD
    clones,           \* number of Repo.clone_from calls made per repository
    cm,               \* the AutoContextManager of the current instance
    failed_log,       \* what "Failed on instance ..." has printed
    lf                \* list_files() taken alone: its arguments and result

vars == <<args, dataset, pc, exc, i, fs, cwd, bound, data, patch_info,
          changed_funcs, input_instances, orig_dir, root_dir, k, wc, clones,
          cm, failed_log, lf>>

(***************************************************************************)
(* Bounds of the model.                                                    *)
(***************************************************************************)
\* the largest number of hunks in a patch_info given to the attribution alone
MaxHunks == 3

(***************************************************************************)
(* Strings.                                                                *)
(***************************************************************************)
NoneVal == "None"

\* Python truthiness of a str-or-None value
Truthy(x) == x # NoneVal /\ x # ""

\* str.lower() on one atom
LowerAtom(a) ==
    CASE a = "Tests"    -> "tests"
      [] a = "Test"     -> "test"
      [] a = "SWE"      -> "swe"
      [] a = "Lite"     -> "lite"
      [] a = "Verified" -> "verified"
      [] OTHER          -> a

\* str.lower()
lower(s) == [n \in DOMAIN s |-> LowerAtom(s[n])]

\* str.startswith
startswith(s, prefix) ==
    /\ Len(s) >= Len(prefix)
    /\ SubSeq(s, 1, Len(prefix)) = prefix

\* `sub in s` for a one-chunk sub
contains(s, sub) == \E n \in DOMAIN s : s[n] = sub

\* the characters re.split(r" |_|\/|\.", ...) splits on
SplitChars == {" ", "_", "/", "."}

\* re.split(r" |_|\/|\.", s), as the set of the words it returns
RECURSIVE re_split(_, _, _)
re_split(s, word, words) ==
    IF s = <<>> THEN words \cup {word}
    ELSE IF Head(s) \in SplitChars
         THEN re_split(Tail(s), <<>>, words \cup {word})
         ELSE re_split(Tail(s), Append(word, Head(s)), words)

\* str.replace("/", "__")
RECURSIVE replace_slash(_)
replace_slash(s) ==
    IF s = <<>> THEN <<>>
    ELSE IF Head(s) = "/" THEN <<"_", "_">> \o replace_slash(Tail(s))
         ELSE <<Head(s)>> \o replace_slash(Tail(s))

\* os.path.join(a, b) for a relative b
path_join(a, b) == a \o <<"/">> \o b

\* Path(p).resolve() with the process in directory `dir`
resolve(p, dir) == IF p # <<>> /\ p[1] = "/" THEN p ELSE path_join(dir, p)

\* Path.relative_to(root) of a path under root
relative_to(p, root) == SubSeq(p, Len(root) + 2, Len(p))

(***************************************************************************)
(* is_test and list_files.                                                 *)
(***************************************************************************)
test_phrases == {"test", "tests", "testing"}

is_test(name) ==
    LET words == re_split(lower(name), <<>>, {})
    IN  \E word \in test_phrases : <<word>> \in words

\* a path rglob("*.py") yields: its last component ends in ".py"
matches_py(p) ==
    /\ Len(p) >= 2
    /\ p[Len(p) - 1] = "."
    /\ p[Len(p)] = "py"

\* list_files(root_dir, include_tests) over a directory holding the files
\* `tree` (paths relative to root_dir); the result as a set
list_files(root, include_tests, tree) ==
    LET found == {path_join(root, rel) : rel \in {r \in tree : matches_py(r)}}
        kept  == {filename \in found : ~(~include_tests /\ is_test(filename))}
    IN  {relative_to(filename, root) : filename \in kept}

(***************************************************************************)
(* Patch attribution: lines 230-237 of function().                         *)
(***************************************************************************)
\* f'{fle}/{class_changed}/{function_changed}' or f'{fle}/{function_changed}'
func_key(fle, hunk) ==
    IF Truthy(hunk.class_changed)
    THEN fle \o <<"/", hunk.class_changed, "/", hunk.function_changed>>
    ELSE fle \o <<"/", hunk.function_changed>>

\* a plausible slip: the newly_added test of line 233 dropped
counts_as_changed_ignoring_new(hunk) ==
    Truthy(hunk.function_changed)

\* the condition of line 233
counts_as_changed(hunk) ==
    Truthy(hunk.function_changed) /\ hunk.newly_added = FALSE

\* the inner loop: for hunk in hunks
RECURSIVE hunks_loop(_, _, _)
hunks_loop(fle, hunks, acc) ==
    IF hunks = <<>> THEN acc
    ELSE LET hunk == Head(hunks)
         IN  hunks_loop(fle, Tail(hunks),
                        IF counts_as_changed(hunk)
                        THEN acc \cup {func_key(fle, hunk)}
                        ELSE acc)

\* the outer loop: for fle, hunks in patch_info.items()
RECURSIVE files_loop(_, _, _)
files_loop(pinfo, todo, acc) ==
    IF todo = {} THEN acc
    ELSE LET fle == CHOOSE f \in todo : TRUE
         IN  files_loop(pinfo, todo \ {fle}, hunks_loop(fle, pinfo[fle], acc))

compute_changed_funcs(pinfo) == files_loop(pinfo, DOMAIN pinfo, {})

\* a plausible slip: the empty set not skipped
skip_never(cf) == FALSE

\* line 239: `if not changed_funcs`
skip_empty(cf) == cf = {}

(***************************************************************************)
(* Naming and the dataset directories.                                     *)
(***************************************************************************)
\* lines 280-288 of main()
run_name(a) ==
    LET n1 == <<"swe", "-", "bench">>
        n2 == IF contains(lower(a.dataset_name), "lite")
              THEN n1 \o <<"-", "lite">>
              ELSE IF contains(lower(a.dataset_name), "verified")
                   THEN n1 \o <<"-", "verified">>
                   ELSE n1
        n3 == IF a.split # "test" THEN n2 \o <<"-", a.split>> ELSE n2
    IN  IF a.level # "file" THEN n3 \o <<"-", a.level>> ELSE n3

name == run_name(args)

\* f"{name}_{instance_id}"
out_entry(nm, instance_id) == nm \o <<"_", instance_id>>

\* the condition of the comprehension of line 291
wiped(entry, a) ==
    \/ startswith(entry, run_name(a) \o <<"_">>)
    \/ startswith(entry, <<"csn", "_", a.level, "_">>)

\* line 291: shutil.rmtree of every matching entry of the dataset directory
rmtree_matching(dir, a) ==
    [e \in {x \in DOMAIN dir : ~wiped(x, a)} |-> dir[e]]

\* os.makedirs(path, exist_ok=True) and the three save_* calls: the
\* instance directory then holds exactly the given records
save_outputs(dir, entry, queries, docs, qrels) ==
    [e \in DOMAIN dir \cup {entry} |->
        IF e = entry
        THEN [queries |-> queries, corpus |-> docs, qrels |-> qrels]
        ELSE dir[e]]


(***************************************************************************)
(* The inputs the model draws from.                                        *)
(***************************************************************************)
DatasetNames ==
    { <<"princeton", "-", "nlp", "/", "SWE", "-", "bench", "_", "Lite">>,
      <<"princeton", "-", "nlp", "/", "SWE", "-", "bench">> }

DatasetDirs == {"datasets", "out"}

Levels == {"file", "function"}

\* source_file values of a patch, as unidiff reports them
SrcModule == <<"a", "/", "m", ".", "py">>
SrcDoc    == <<"a", "/", "doc", ".", "rst">>
DevNull   == <<"/", "dev", "/", "null">>

Patches == { {SrcModule}, {SrcModule, SrcDoc}, {DevNull, SrcModule} }

Repos == { <<"o", "/", "r1">>, <<"o", "/", "r2">> }

\* the benchmark splits the model loads: two instances, of one repository
\* or of two
Datasets ==
    { << [instance_id |-> "i1", repo |-> <<"o", "/", "r1">>,
          base_commit |-> "c1", patch |-> p],
         [instance_id |-> "i2", repo |-> r,
          base_commit |-> "c2", patch |-> {SrcModule}] >>
      : p \in Patches, r \in Repos }

\* what a dataset directory holds before the run: entries of another
\* builder and of another tool, and possibly this run's directory of i1
OldContent == [queries |-> {"old"}, corpus |-> EmptyBag, qrels |-> {}]

CsnEntry(a) == <<"csn", "_", a.level, "_", "python">>
OtherEntry  == <<"notes">>

InitialDir(a, cached) ==
    [e \in {CsnEntry(a), OtherEntry}
           \cup (IF cached THEN {out_entry(run_name(a), "i1")} ELSE {})
       |-> OldContent]

\* the Patch Hunk Records
Classes == {NoneVal, "C"}
Funcs   == {NoneVal, "f", "g"}
Hunks   == [class_changed : Classes, function_changed : Funcs,
            newly_added : BOOLEAN]

PFile == <<"p", ".", "py">>
QFile == <<"d", "/", "q", ".", "py">>

\* the sequences over S of length 1..n
SeqsUpTo(S, n) == UNION {[1..m -> S] : m \in 1..n}

\* every patch_info over PFile and QFile with at most n hunks in all
PatchInfos(n) ==
    {<<>>}
    \cup UNION {[{f} -> SeqsUpTo(Hunks, n)] : f \in {PFile, QFile}}
    \cup {pinfo \in [{PFile, QFile} -> SeqsUpTo(Hunks, n - 1)] :
             Len(pinfo[PFile]) + Len(pinfo[QFile]) <= n}

\* what parse_patch_full returns in the runs of function()
RunPatchInfos ==
    { [f \in {PFile} |-> <<h>>] :
        h \in { [class_changed |-> NoneVal, function_changed |-> "f", newly_added |-> FALSE],
                [class_changed |-> "C", function_changed |-> "g", newly_added |-> FALSE],
                [class_changed |-> NoneVal, function_changed |-> "g", newly_added |-> TRUE] } }

\* what find_py_or_non_dict_with_path returns in the runs of function()
RunData ==
    { {PFile \o <<"/", "f">>, PFile \o <<"/", "C", "/", "g">>},
      {PFile \o <<"/", "f">>},
      {} }

\* the files of a checkout, relative to it
RepoFiles ==
    { <<"m", ".", "py">>, <<"tests", "/", "m", ".", "py">>, <<"doc", ".", "rst">> }

\* the names TemporaryDirectory may return: under a relative tmp_dir
\* (resolved against the working directory), or under /scratch
TempRoots ==
    { <<"tmp", "/", "tmpa">>,
      <<"/", "scratch", "/", "tmpb">> }

StartDir == <<"/", "work">>

NoCm == [repo_path |-> <<>>, old_dir |-> <<>>, base_commit |-> ""]

IdleLf == [root_dir |-> <<>>, tree |-> {}, files |-> {}, done |-> TRUE]

(***************************************************************************)
(* The state after argument parsing and load_dataset, before main() acts.  *)
(***************************************************************************)
\* no call of get_file_contents has been made
FileLocalsStart ==
    /\ input_instances = <<>>
    /\ orig_dir = <<>>
    /\ root_dir = <<>>
    /\ k = 1
    /\ wc = <<>>
    /\ clones = [r \in Repos |-> 0]
    /\ cm = NoCm
    /\ failed_log = {}

\* function() has bound none of its locals
FunctionLocalsStart ==
    /\ bound = {}
    /\ data = {}
    /\ patch_info = <<>>
    /\ changed_funcs = {}

ProgramStart ==
    /\ exc = ""
    /\ i = 1
    /\ cwd = StartDir
    /\ FunctionLocalsStart
    /\ FileLocalsStart

Init ==
    /\ args \in [dataset_name : DatasetNames, split : {"test"}, level : Levels,
                 dataset_dir : DatasetDirs, reuse_cached : BOOLEAN]
    /\ dataset \in Datasets
    /\ pc = "main"
    /\ \E cached \in BOOLEAN, cached_cwd \in BOOLEAN :
         /\ args.dataset_dir = "datasets" => cached_cwd = cached
         /\ fs = [d \in DatasetDirs |->
                    IF d = args.dataset_dir THEN InitialDir(args, cached)
                    ELSE IF cached_cwd
                         THEN [e \in {out_entry(run_name(args), "i1")} |-> OldContent]
                         ELSE <<>>]
    /\ lf = IdleLf
    /\ ProgramStart

(***************************************************************************)
(* main(), lines 280-292.                                                  *)
(***************************************************************************)
main ==
    /\ pc = "main"
    /\ fs' = IF ~args.reuse_cached
             THEN [fs EXCEPT ![args.dataset_dir] = rmtree_matching(@, args)]
             ELSE fs
    /\ pc' = args.level
    /\ UNCHANGED <<args, dataset, exc, i, cwd, bound, data, patch_info,
                   changed_funcs, input_instances, orig_dir, root_dir, k, wc,
                   clones, cm, failed_log, lf>>

(***************************************************************************)
(* function(), lines 211-270.                                              *)
(***************************************************************************)
\* the loop is over: function() returns
function_return ==
    /\ pc = "function"
    /\ i > Len(dataset)
    /\ pc' = "done"
    /\ UNCHANGED <<args, dataset, exc, i, fs, cwd, bound, data, patch_info,
                   changed_funcs, input_instances, orig_dir, root_dir, k, wc,
                   clones, cm, failed_log, lf>>

\* lines 213-221: the next item, skipped when datasets/{name}_{id} exists
function_next ==
    /\ pc = "function"
    /\ i <= Len(dataset)
    /\ IF out_entry(name, dataset[i].instance_id) \in DOMAIN fs["datasets"]
       THEN i' = i + 1 /\ pc' = "function"
       ELSE i' = i /\ pc' = "function_try"
    /\ UNCHANGED <<args, dataset, exc, fs, cwd, bound, data, patch_info,
                   changed_funcs, input_instances, orig_dir, root_dir, k, wc,
                   clones, cm, failed_log, lf>>

\* lines 223-229: the three calls; a bare except that enters the debugger,
\* which the operator leaves with "c" (continue) or "q" (BdbQuit is raised)
function_try ==
    /\ pc = "function_try"
    /\ \E outcome \in {"ok", "structure_raises", "data_raises", "patch_raises"},
          dbg \in {"c", "q"}, d \in RunData, pinfo \in RunPatchInfos :
         /\ outcome = "ok" => dbg = "c"
         /\ bound' = bound \cup
                (CASE outcome = "ok" -> {"structure", "data", "patch_info"}
                   [] outcome = "patch_raises" -> {"structure", "data"}
                   [] outcome = "data_raises" -> {"structure"}
                   [] OTHER -> {})
         /\ data' = IF outcome \in {"ok", "patch_raises"} THEN d ELSE data
         /\ patch_info' = IF outcome = "ok" THEN pinfo ELSE patch_info
         /\ IF dbg = "q"
            THEN pc' = "crashed" /\ exc' = "BdbQuit"
            ELSE pc' = "function_attr" /\ exc' = exc
    /\ UNCHANGED <<args, dataset, i, fs, cwd, changed_funcs, input_instances,
                   orig_dir, root_dir, k, wc, clones, cm, failed_log, lf>>

\* lines 230-241: the changed functions; the instance is left when none
function_attr ==
    /\ pc = "function_attr"
    /\ IF "patch_info" \notin bound
       THEN /\ pc' = "crashed"
            /\ exc' = "UnboundLocalError"
            /\ UNCHANGED <<changed_funcs, i>>
       ELSE /\ changed_funcs' = compute_changed_funcs(patch_info)
            /\ exc' = exc
            /\ IF skip_empty(changed_funcs')
               THEN i' = i + 1 /\ pc' = "function"
               ELSE i' = i /\ pc' = "function_emit"
    /\ UNCHANGED <<args, dataset, fs, cwd, bound, data, patch_info,
                   input_instances, orig_dir, root_dir, k, wc, clones, cm,
                   failed_log, lf>>

\* lines 243-270: docs, qrels (a failed assert enters the debugger) and the
\* instance directory
function_emit ==
    /\ pc = "function_emit"
    /\ \E dbg \in {"c", "q"} :
         /\ changed_funcs \subseteq data => dbg = "c"
         /\ IF dbg = "q"
            THEN /\ pc' = "crashed"
                 /\ exc' = "BdbQuit"
                 /\ UNCHANGED <<fs, i>>
            ELSE /\ fs' = [fs EXCEPT ![args.dataset_dir] =
                              save_outputs(@, out_entry(name, dataset[i].instance_id),
                                           {dataset[i].instance_id},
                                           SetToBag(data), changed_funcs)]
                 /\ i' = i + 1
                 /\ pc' = "function"
                 /\ exc' = exc
    /\ UNCHANGED <<args, dataset, cwd, bound, data, patch_info, changed_funcs,
                   input_instances, orig_dir, root_dir, k, wc, clones, cm,
                   failed_log, lf>>

(***************************************************************************)
(* file(), lines 173-209, with get_file_contents and the context managers. *)
(***************************************************************************)
\* get_oracle_filenames: source_file.split("a/", 1)[-1] of every patched file
split_a(source_file) ==
    IF \E n \in 1..(Len(source_file) - 1) :
           source_file[n] = "a" /\ source_file[n + 1] = "/"
    THEN LET first == CHOOSE n \in 1..(Len(source_file) - 1) :
                        /\ source_file[n] = "a" /\ source_file[n + 1] = "/"
                        /\ \A m \in 1..(n - 1) :
                              ~(source_file[m] = "a" /\ source_file[m + 1] = "/")
         IN  SubSeq(source_file, first + 2, Len(source_file))
    ELSE source_file

get_oracle_filenames(instance) == {split_a(sf) : sf \in instance.patch}

\* f"{instance_id}_{filename}"
doc_id(instance_id, filename) == <<instance_id, "_">> \o filename

\* os.path.join(self.root_dir, instance["repo"].replace("/", "__"))
repo_dir_of(root, instance) == path_join(root, replace_slash(instance.repo))

\* ContextManager.__exit__: os.chdir(self.old_dir)
cm_exit(c) == c.old_dir

\* a plausible slip: the finally clause without its chdir
finally_no_chdir(dir, orig) == dir

\* line 170: os.chdir(orig_dir) in the finally clause
finally_chdir(dir, orig) == orig

\* the loop is over: file() returns
file_return ==
    /\ pc = "file"
    /\ i > Len(dataset)
    /\ pc' = "done"
    /\ UNCHANGED <<args, dataset, exc, i, fs, cwd, bound, data, patch_info,
                   changed_funcs, input_instances, orig_dir, root_dir, k, wc,
                   clones, cm, failed_log, lf>>

\* lines 174-181 and 148-149: the next item in a one-entry item_dict, and
\* the entry of get_file_contents with a fresh TemporaryDirectory
file_next ==
    /\ pc = "file"
    /\ i <= Len(dataset)
    /\ input_instances' =
          << [instance_id |-> dataset[i].instance_id, repo |-> dataset[i].repo,
              base_commit |-> dataset[i].base_commit, patch |-> dataset[i].patch,
              keys |-> {}, oracle_file_contents |-> {}, file_contents |-> {}] >>
    /\ orig_dir' = cwd
    /\ root_dir' \in TempRoots
    /\ wc' = <<>>
    /\ k' = 1
    /\ pc' = "gfc_loop"
    /\ UNCHANGED <<args, dataset, exc, i, fs, cwd, bound, data, patch_info,
                   changed_funcs, clones, cm, failed_log, lf>>

\* line 150: the next instance of input_instances
gfc_next ==
    /\ pc = "gfc_loop"
    /\ k <= Len(input_instances)
    /\ pc' = "acm_init"
    /\ UNCHANGED <<args, dataset, exc, i, fs, cwd, bound, data, patch_info,
                   changed_funcs, input_instances, orig_dir, root_dir, k, wc,
                   clones, cm, failed_log, lf>>

\* lines 149 and 171: the loop is over; the temporary directory is removed
\* and get_file_contents returns
gfc_return ==
    /\ pc = "gfc_loop"
    /\ k > Len(input_instances)
    /\ wc' = <<>>
    /\ root_dir' = <<>>
    /\ cwd' = orig_dir
    /\ pc' = "file_docs"
    /\ UNCHANGED <<args, dataset, exc, i, fs, bound, data, patch_info,
                   changed_funcs, input_instances, orig_dir, k, clones, cm,
                   failed_log, lf>>

\* AutoContextManager.__init__ and ContextManager.__init__, lines 59-78 and
\* 22-26: clone when repo_dir does not exist; the clone may raise
acm_init ==
    /\ pc = "acm_init"
    /\ LET instance == input_instances[k]
           repo_dir == resolve(repo_dir_of(root_dir, instance), cwd)
       IN  IF repo_dir \in DOMAIN wc
           THEN /\ cm' = [repo_path |-> repo_dir, old_dir |-> cwd,
                          base_commit |-> instance.base_commit]
                /\ pc' = "cm_enter"
                /\ UNCHANGED <<wc, clones, exc>>
           ELSE /\ clones' = [clones EXCEPT ![instance.repo] = @ + 1]
                /\ \E cloned \in BOOLEAN :
                     IF cloned
                     THEN /\ wc' = [d \in DOMAIN wc \cup {repo_dir} |->
                                      IF d = repo_dir THEN "HEAD" ELSE wc[d]]
                          /\ cm' = [repo_path |-> repo_dir, old_dir |-> cwd,
                                    base_commit |-> instance.base_commit]
                          /\ pc' = "cm_enter"
                          /\ exc' = exc
                     ELSE /\ exc' = "GitCommandError"
                          /\ pc' = "gfc_except"
                          /\ UNCHANGED <<wc, cm>>
    /\ UNCHANGED <<args, dataset, i, fs, cwd, bound, data, patch_info,
                   changed_funcs, input_instances, orig_dir, root_dir, k,
                   failed_log, lf>>

\* ContextManager.__enter__, lines 28-41: chdir, then reset and clean, which
\* may raise (and then __exit__ is not called)
cm_enter ==
    /\ pc = "cm_enter"
    /\ cwd' = cm.repo_path
    /\ \E checked_out \in BOOLEAN :
         IF checked_out
         THEN /\ wc' = [wc EXCEPT ![cm.repo_path] = cm.base_commit]
              /\ pc' = "with_body"
              /\ exc' = exc
         ELSE /\ exc' = "CalledProcessError"
              /\ pc' = "gfc_except"
              /\ wc' = wc
    /\ UNCHANGED <<args, dataset, i, fs, bound, data, patch_info, changed_funcs,
                   input_instances, orig_dir, root_dir, k, clones, cm,
                   failed_log, lf>>

\* lines 157-164 and __exit__: the three ingestions, each of which may raise,
\* and the assertion; the context manager's __exit__ runs on every way out
with_body ==
    /\ pc = "with_body"
    /\ \E tree \in SUBSET RepoFiles, readmes_read \in BOOLEAN, dir_read \in BOOLEAN :
         LET instance == input_instances[k]
             oracle   == get_oracle_filenames(instance)
             oracle_read == \A f \in oracle : f \in tree \/ f = DevNull
             listed   == list_files(cm.repo_path, FALSE, tree)
             raised   == CASE ~readmes_read -> "UnicodeDecodeError"
                           [] ~oracle_read -> "FileNotFoundError"
                           [] ~dir_read -> "OSError"
                           [] ~(oracle \subseteq listed) -> "AssertionError"
                           [] OTHER -> ""
             keys     == (IF readmes_read THEN {"readmes"} ELSE {})
                         \cup (IF readmes_read /\ oracle_read
                               THEN {"oracle_file_contents"} ELSE {})
                         \cup (IF readmes_read /\ oracle_read /\ dir_read
                               THEN {"file_contents"} ELSE {})
         IN  /\ input_instances' =
                   [input_instances EXCEPT
                      ![k].keys = keys,
                      ![k].oracle_file_contents =
                          IF "oracle_file_contents" \in keys THEN oracle ELSE {},
                      ![k].file_contents =
                          IF "file_contents" \in keys THEN listed ELSE {}]
             /\ exc' = raised
             /\ pc' = IF raised = "" THEN "gfc_finally" ELSE "gfc_except"
    /\ cwd' = cm_exit(cm)
    /\ UNCHANGED <<args, dataset, i, fs, bound, data, patch_info, changed_funcs,
                   orig_dir, root_dir, k, wc, clones, cm, failed_log, lf>>

\* lines 165-167: the exception is printed and dropped
gfc_except ==
    /\ pc = "gfc_except"
    /\ failed_log' = failed_log \cup {<<input_instances[k].instance_id, exc>>}
    /\ exc' = ""
    /\ pc' = "gfc_finally"
    /\ UNCHANGED <<args, dataset, i, fs, cwd, bound, data, patch_info,
                   changed_funcs, input_instances, orig_dir, root_dir, k, wc,
                   clones, cm, lf>>

\* lines 168-170: the finally clause
gfc_finally ==
    /\ pc = "gfc_finally"
    /\ cwd' = finally_chdir(cwd, orig_dir)
    /\ k' = k + 1
    /\ pc' = "gfc_loop"
    /\ UNCHANGED <<args, dataset, exc, i, fs, bound, data, patch_info,
                   changed_funcs, input_instances, orig_dir, root_dir, wc,
                   clones, cm, failed_log, lf>>

\* lines 182-209: docs and qrels from the keys get_file_contents set on the
\* instance (a missing key raises KeyError), and the instance directory
file_docs ==
    /\ pc = "file_docs"
    /\ LET instance == input_instances[1]
           instance_id == instance.instance_id
       IN  IF ~({"oracle_file_contents", "file_contents"} \subseteq instance.keys)
           THEN /\ pc' = "crashed"
                /\ exc' = "KeyError"
                /\ UNCHANGED <<fs, i>>
           ELSE /\ fs' = [fs EXCEPT ![args.dataset_dir] =
                             save_outputs(@, out_entry(name, instance_id),
                                 {instance_id},
                                 SetToBag({doc_id(instance_id, f) :
                                             f \in instance.file_contents}),
                                 {doc_id(instance_id, f) :
                                    f \in instance.oracle_file_contents})]
                /\ i' = i + 1
                /\ pc' = "file"
                /\ exc' = exc
    /\ UNCHANGED <<args, dataset, cwd, bound, data, patch_info, changed_funcs,
                   input_instances, orig_dir, root_dir, k, wc, clones, cm,
                   failed_log, lf>>

(***************************************************************************)
(* The whole program.                                                      *)
(***************************************************************************)
Next ==
    \/ main
    \/ function_return
    \/ function_next
    \/ function_try
    \/ function_attr
    \/ function_emit
    \/ file_return
    \/ file_next
    \/ gfc_next
    \/ gfc_return
    \/ acm_init
    \/ cm_enter
    \/ with_body
    \/ gfc_except
    \/ gfc_finally
    \/ file_docs

Spec == Init /\ [][Next]_vars

(***************************************************************************)
(* The patch attribution taken alone: function() at line 230 with any      *)
(* patch_info of at most MaxHunks hunks.                                   *)
(***************************************************************************)
InitAttr ==
    /\ args = [dataset_name |-> <<"princeton", "-", "nlp", "/", "SWE", "-", "bench", "_", "Lite">>,
               split |-> "test", level |-> "function",
               dataset_dir |-> "datasets", reuse_cached |-> TRUE]
    /\ dataset \in {ds \in Datasets : ds[1].patch = {SrcModule}}
    /\ pc = "function_attr"
    /\ exc = ""
    /\ i = 1
    /\ cwd = StartDir
    /\ fs = [d \in DatasetDirs |-> <<>>]
    /\ bound = {"structure", "data", "patch_info"}
    /\ data = {}
    /\ patch_info \in PatchInfos(MaxHunks)
    /\ changed_funcs = {}
    /\ FileLocalsStart
    /\ lf = IdleLf

NextAttr == function_attr

SpecAttr == InitAttr /\ [][NextAttr]_vars

(***************************************************************************)
(* list_files taken alone, over any root directory and tree.               *)
(***************************************************************************)
ListRoots ==
    { <<"/", "work", "/", "tmp", "/", "tmpa", "/", "o", "_", "_", "r1">>,
      <<"/", "scratch", "/", "tmpa", "_", "test", "_", "b", "/", "o", "_", "_", "r1">>,
      <<"/", "home", "/", "Tests", "/", "tmp", "/", "tmpa", "/", "o", "_", "_", "r1">> }

ListPaths ==
    { <<"m", ".", "py">>,
      <<"tests", "/", "m", ".", "py">>,
      <<"test", "_", "m", ".", "py">>,
      <<"pkg", "/", "Testing", ".", "py">>,
      <<"contest", ".", "py">>,
      <<"doc", ".", "rst">>,
      <<"test", "-", "m", ".", "py">> }

InitList ==
    /\ args = [dataset_name |-> <<"princeton", "-", "nlp", "/", "SWE", "-", "bench", "_", "Lite">>,
               split |-> "test", level |-> "file",
               dataset_dir |-> "datasets", reuse_cached |-> TRUE]
    /\ dataset \in {ds \in Datasets : ds[1].patch = {SrcModule}}
    /\ pc = "list_files"
    /\ fs = [d \in DatasetDirs |-> <<>>]
    /\ lf \in [root_dir : ListRoots, tree : SUBSET ListPaths, files : {{}},
               done : {FALSE}]
    /\ ProgramStart

list_files_call ==
    /\ pc = "list_files"
    /\ ~lf.done
    /\ lf' = [lf EXCEPT !.files = list_files(lf.root_dir, FALSE, lf.tree),
                        !.done = TRUE]
    /\ UNCHANGED <<args, dataset, pc, exc, i, fs, cwd, bound, data, patch_info,
                   changed_funcs, input_instances, orig_dir, root_dir, k, wc,
                   clones, cm, failed_log>>

NextList == list_files_call

SpecList == InitList /\ [][NextList]_vars

(***************************************************************************)
(* Properties.                                                             *)
(***************************************************************************)
\* the instance directories this run has written under --dataset_dir
Written == {e \in DOMAIN fs[args.dataset_dir] :
              fs[args.dataset_dir][e] # OldContent}

\* C1: once function() has computed changed_funcs from patch_info, the set
\* is exactly the keys of the hunks with function_changed set and
\* newly_added false: file/class/function with a class, file/function
\* without; no other hunk gives a key.
C1_ChangedFuncsExact ==
    (pc \in {"function", "function_emit"} /\ "patch_info" \in bound) =>
        changed_funcs =
            UNION { { IF patch_info[f][n].class_changed \notin {NoneVal, ""}
                      THEN f \o <<"/", patch_info[f][n].class_changed,
                                  "/", patch_info[f][n].function_changed>>
                      ELSE f \o <<"/", patch_info[f][n].function_changed>>
                      : n \in { m \in DOMAIN patch_info[f] :
                                  /\ patch_info[f][m].function_changed \notin {NoneVal, ""}
                                  /\ ~patch_info[f][m].newly_added } }
                    : f \in DOMAIN patch_info }

\* a patch that modifies f and adds g has given {p.py/f}
C1_Witness ==
    /\ pc = "function_emit"
    /\ DOMAIN patch_info = {PFile}
    /\ patch_info[PFile] =
          << [class_changed |-> NoneVal, function_changed |-> "f", newly_added |-> FALSE],
             [class_changed |-> NoneVal, function_changed |-> "g", newly_added |-> TRUE] >>
    /\ changed_funcs = {PFile \o <<"/", "f">>}

\* C2: in function mode every corpus-id of the qrels of a written instance
\* directory is the _id of exactly one document of its corpus.
C2_QrelsInCorpusOnce ==
    args.level = "function" =>
        \A e \in Written :
            \A q \in fs[args.dataset_dir][e].qrels :
                CopiesIn(q, fs[args.dataset_dir][e].corpus) = 1

\* C3: a step of function() that computes an empty changed-function set
\* goes on to the next instance and leaves the dataset directories as they
\* were.
C3_EmptySkipped ==
    [][ (pc = "function_attr" /\ "patch_info" \in bound /\ changed_funcs' = {})
          => (pc' = "function" /\ i' = i + 1 /\ fs' = fs) ]_vars

\* the first instance's patch only added a function; the loop is at the
\* second instance and there is no directory of the first
C3_Witness ==
    /\ pc = "function"
    /\ i = 2
    /\ "patch_info" \in bound
    /\ patch_info[PFile][1].newly_added
    /\ changed_funcs = {}
    /\ out_entry(name, "i1") \notin DOMAIN fs[args.dataset_dir]
    /\ out_entry(name, "i1") \notin DOMAIN fs["datasets"]

\* C4: in file mode the corpus-ids of the qrels of a written instance
\* directory are among the _ids of its corpus.
C4_FileQrelsInCorpus ==
    args.level = "file" =>
        \A e \in Written :
            fs[args.dataset_dir][e].qrels
                \subseteq BagToSet(fs[args.dataset_dir][e].corpus)

\* C5: in file mode no exception leaves file(): the run is never ended by
\* one.
C5_FileErrorsContained ==
    args.level = "file" => pc # "crashed"

\* C6: at the start of every instance of get_file_contents and on its
\* return the working directory is the one at its entry, which is the one
\* the process started in.
C6_CwdRestored ==
    /\ pc \in {"gfc_loop", "file_docs"} => cwd = orig_dir
    /\ pc \in {"file", "gfc_loop", "file_docs"} => cwd = StartDir

\* the checkout of the only instance raised after the chdir, and the loop
\* is back at its head in the entry directory
C6_Witness ==
    /\ pc = "gfc_loop"
    /\ k = 2
    /\ <<input_instances[1].instance_id, "CalledProcessError">> \in failed_log
    /\ cwd = orig_dir

\* C7: with reuse_cached true, function() goes past the existence test only
\* for an instance that has no directory under --dataset_dir.
C7_CachedSkipped ==
    (args.level = "function" /\ args.reuse_cached
       /\ pc \in {"function_try", "function_attr", "function_emit"}) =>
        out_entry(name, dataset[i].instance_id) \notin DOMAIN fs[args.dataset_dir]

\* C8: no repository is cloned more than once in a run.
C8_ClonedOnce ==
    \A r \in Repos : clones[r] <= 1

\* C9: list_files(root_dir, include_tests=False) is exactly the .py files
\* whose path relative to root_dir has none of the test tokens.
C9_ListFilesByRelativePath ==
    (pc = "list_files" /\ lf.done) =>
        lf.files = {rel \in lf.tree : matches_py(rel) /\ ~is_test(rel)}

\* C10: main() removes exactly the entries of the dataset directory that
\* start with "{name}_" when reuse_cached is false, and nothing when it is
\* true.
C10_WipesOwnPrefixOnly ==
    [][ pc = "main" =>
          fs' = IF ~args.reuse_cached
                THEN [fs EXCEPT ![args.dataset_dir] =
                        [e \in {x \in DOMAIN @ : ~startswith(x, name \o <<"_">>)}
                           |-> @[e]]]
                ELSE fs ]_vars

====
